---- MODULE Spec2Model ----
(***************************************************************************)
(* hardcpy: directory discovery / copy engine (sequential and parallel),   *)
(* the path rewriting of _copy_file, and the catalog commands built on     *)
(* them (create, verify, revert, list).                                     *)
(*                                                                         *)
(* A path is the sequence of its components, as std::path::Path yields     *)
(* them: "/" is RootDir, "." is CurDir, ".." is ParentDir, any other       *)
(* string is a Normal component.  A file's content is a sequence of bytes. *)
(***************************************************************************)
EXTENDS Integers, Sequences, FiniteSets, TLC

VARIABLES
    files,          \* filesystem: path -> content, for every regular file
    dirs,           \* filesystem: the set of directories
    Backups,        \* catalog table Backups: records [id, source, dest]
    Files,          \* catalog table Files: records [backup_id, source, dest, sha256]
    cmd,            \* the command being executed and its arguments
    pc,             \* position of the orchestrating (main) thread
    open_err,       \* outcome of fs::read_dir for each subdirectory in this run
    stack,          \* singlethread: VecDeque<ReadDir> of opened directories
    curr_dir,       \* singlethread: the ReadDir being iterated
    file_list,      \* singlethread file_list / _multithread files_list
    conclusion,     \* total_count, error_count, error_list, total_size, path_list
    curr_progress,  \* singlethread: bytes copied by the fd-pressure fallback
    dir_content,    \* singlethread: outcome of the latest fs::read_dir of an entry
    workers,        \* _multithread_discover: running calls, dir path -> entries left
    conclusion_chan,\* mpsc channel of ConclusionFields
    files_list_chan,\* mpsc channel of discovered entries
    thread_pool,    \* copy threads spawned and not yet finished
    report,         \* result of the last finished command, None once the user
                    \* touched the filesystem after it
    prev_run,       \* the value of report when the current command started
    tx,             \* the tables as the open transaction of _copy sees them
    pending,        \* FileEntry rows the running query iterator has yet to yield
    tally           \* verify: verified, real_count, copied, error_list

vars == <<files, dirs, Backups, Files, cmd, pc, open_err, stack, curr_dir,
          file_list, conclusion, curr_progress, dir_content, workers,
          conclusion_chan, files_list_chan, thread_pool, report, prev_run,
          tx, pending, tally>>

fsVars == <<files, dirs>>
dbVars == <<Backups, Files>>
seqVars == <<stack, curr_dir, curr_progress, dir_content>>
parVars == <<workers, conclusion_chan, files_list_chan, thread_pool>>
catVars == <<tx, pending, tally>>

None == "None"

\* no ReadDir is being iterated
NoDir == [path |-> <<>>, rest |-> {}]

\* no command has finished since the user last touched a file
NoResult == [cmd |-> "none"]

(***************************************************************************)
(* Bounds of the model.                                                    *)
(***************************************************************************)
\* entries (files and directories) the user creates before a single run
MaxEntries == 3
\* entries the user creates before two creates in a row
MaxCmdEntries == 2
\* entries the user creates before a backup that is verified
MaxVerifyEntries == 1
\* verify commands run on a backup
MaxVerifies == 2
\* entries the user creates before a sequence of create, revert and list
MaxCatalogEntries == 1
\* commands in a sequence of create, revert and list
MaxCommands == 2

\* entries the user creates before a create that is followed to its commit
MaxCreateEntries == 3
\* entries the user creates before a sequence of create, delete and soft-delete
MaxDeleteEntries == 1
\* commands in a sequence of create, delete and soft-delete
MaxDeleteCommands == 2
\* entries the user creates before a backup of several files that is verified
MaxRecordEntries == 2
\* files the user writes into the source roots before backups that share a
\* destination root
MaxSharedEntries == 1
\* commands in a sequence of creates and deletes on a shared destination root
MaxSharedCommands == 3
\* entries the user creates before a run under a fair scheduler
MaxFairEntries == 3

\* names of the entries the environment creates
Names == {"a", "b", "c"}
\* file contents the environment writes
Contents == {<<1>>, <<2, 2>>}
\* source roots given on the command line; the current directory is neither
\* below /s nor below /d
SourceRoots == {<<"/", "s">>, <<"/", "s", "s">>, <<".">>}
\* destination roots given on the command line
DestRoots == {<<"/", "d">>}

(***************************************************************************)
(* Sequences and paths.                                                    *)
(***************************************************************************)
Last(s) == s[Len(s)]
Front(s) == SubSeq(s, 1, Len(s) - 1)
Range(s) == {s[i] : i \in 1..Len(s)}
Count(s, x) == Cardinality({i \in 1..Len(s) : s[i] = x})

IsPrefix(p, q) == Len(p) <= Len(q) /\ SubSeq(q, 1, Len(p)) = p
IsStrictPrefix(p, q) == Len(p) < Len(q) /\ SubSeq(q, 1, Len(p)) = p

RECURSIVE SumSeq(_)
SumSeq(s) == IF s = <<>> THEN 0 ELSE Head(s) + SumSeq(Tail(s))

\* std::path::Component: the kind of a component
IsNormal(c) == c \notin {"/", ".", ".."}

\* every entry of the filesystem
Entries == dirs \cup DOMAIN files
IsDir(p) == p \in dirs
IsFile(p) == p \in DOMAIN files

\* fs::read_dir(p): the entries of directory p, in no particular order
ReadDir(p) == [path |-> p,
               rest |-> {q \in Entries : Len(q) = Len(p) + 1 /\ IsPrefix(p, q)}]

\* fs::create_dir_all(p): p and each of its ancestors become directories
CreateDirAll(ds, p) == ds \cup {SubSeq(p, 1, i) : i \in 1..Len(p)}

\* fs::copy(from, to): full overwrite of the destination's content
FsCopy(fs, from, to) == [q \in DOMAIN fs \cup {to} |-> IF q = to THEN fs[from] ELSE fs[q]]

(***************************************************************************)
(* FileSize (main.rs 43-108).                                              *)
(***************************************************************************)
FileSizeNew == [gb |-> 0, mb |-> 0, kb |-> 0, byte |-> 0]

FileSizeUpdate(fsz) ==
    LET kb == fsz.byte \div 1024
        mb == kb \div 1024
        gb == mb \div 1024
    IN  [gb |-> gb, mb |-> mb, kb |-> kb, byte |-> fsz.byte]

FileSizeFromBytes(bytes) == FileSizeUpdate([FileSizeNew EXCEPT !.byte = @ + bytes])

\* entry.metadata().len()
MetadataLen(p) == Len(files[p])

\* Sha256 digest in lower-case hex (main.rs 296-314): a collision-free function
\* of the content
Sha256(content) == <<"sha256">> \o content

ConclusionNew == [total_count |-> 0, error_count |-> 0, error_list |-> <<>>,
                  total_size |-> FileSizeNew, path_list |-> <<>>]

(***************************************************************************)
(* _copy_file (main.rs 832-870): the path rewriting and the copy.          *)
(***************************************************************************)
\* the loop over full_path.components(): st = <<path, found_src>>
RECURSIVE RewriteFrom(_, _, _, _)
RewriteFrom(full_path, src_name, path, found_src) ==
    IF full_path = <<>> THEN path
    ELSE LET component == Head(full_path)
             rest == Tail(full_path)
         IN  IF IsNormal(component) /\ component = src_name
               THEN RewriteFrom(rest, src_name, Append(path, component), TRUE)
             ELSE IF component \in {"/", "."}
               THEN RewriteFrom(rest, src_name, path, found_src)
             ELSE IF found_src
               THEN RewriteFrom(rest, src_name, Append(path, component), found_src)
             ELSE RewriteFrom(rest, src_name, path, found_src)

\* the relative path below the destination root, with the "root/" fallback
RewritePath(full_path, src_name) ==
    LET path == RewriteFrom(full_path, src_name, <<>>, FALSE)
    IN  IF Len(path) = 0 THEN <<"root">> ELSE path

\* the directory without the pop() of the file name
DestDirNoPop(full_path, src_name, dest) == dest \o RewritePath(full_path, src_name)

\* dest.join(&path), then pop(): the directory the file is placed in
DestDir(full_path, src_name, dest) == Front(dest \o RewritePath(full_path, src_name))

\* dest_dir.join(entry.file_name())
DestPath(full_path, src_name, dest) ==
    Append(DestDir(full_path, src_name, dest), Last(full_path))

IoOutcomes == {"ok", "mkdir_err", "copy_err"}

\* the filesystem after _copy_file, for the outcome io of its two fallible calls
CopyFileDirs(full_path, src_name, dest, io) ==
    IF io = "mkdir_err" THEN dirs
    ELSE CreateDirAll(dirs, DestDir(full_path, src_name, dest))

CopyFileFiles(full_path, src_name, dest, io) ==
    IF io = "ok" THEN FsCopy(files, full_path, DestPath(full_path, src_name, dest))
    ELSE files

(***************************************************************************)
(* Initial state: the roots exist and are empty, the catalog is empty.     *)
(***************************************************************************)
TallyNew == [verified |-> 0, real_count |-> 0, copied |-> 0, error_list |-> <<>>]

CmdNone == [name |-> "none", source_str |-> <<>>, dest_str |-> <<>>,
            is_multithread |-> FALSE, id |-> 0, n |-> 0]

Init ==
    /\ files = <<>>
    /\ dirs = SourceRoots \cup {<<"/">>}
    /\ Backups = {}
    /\ Files = {}
    /\ cmd = CmdNone
    /\ pc = "idle"
    /\ open_err = <<>>
    /\ stack = <<>>
    /\ curr_dir = NoDir
    /\ file_list = <<>>
    /\ conclusion = ConclusionNew
    /\ curr_progress = 0
    /\ dir_content = None
    /\ workers = <<>>
    /\ conclusion_chan = <<>>
    /\ files_list_chan = <<>>
    /\ thread_pool = {}
    /\ report = NoResult
    /\ prev_run = NoResult
    /\ tx = None
    /\ pending = {}
    /\ tally = TallyNew

(***************************************************************************)
(* The environment: the user populates the source trees between commands.  *)
(***************************************************************************)
\* the entries below path r
Below(r) == {q \in Entries : IsStrictPrefix(r, q)}

\* entries the user created below the roots; the user works in the tree of one
\* root (/s/s or .), and /s holds nothing but /s/s
UserEntries == {q \in Entries \ SourceRoots : \E r \in SourceRoots : IsStrictPrefix(r, q)}

EnvMkdir(parent, name, max) ==
    /\ pc = "idle"
    /\ cmd.n = 0
    /\ Cardinality(UserEntries) < max
    /\ parent \in dirs
    /\ \E r \in SourceRoots : IsPrefix(r, parent) /\ UserEntries \subseteq Below(r) /\ Below(r) \subseteq UserEntries
    /\ Append(parent, name) \notin Entries
    /\ dirs' = dirs \cup {Append(parent, name)}
    /\ UNCHANGED <<files, dbVars, cmd, pc, open_err, seqVars, file_list,
                   conclusion, parVars, report, prev_run, catVars>>

EnvWrite(parent, name, content, max) ==
    /\ pc = "idle"
    /\ cmd.n = 0
    /\ Cardinality(UserEntries) < max
    /\ parent \in dirs
    /\ \E r \in SourceRoots : IsPrefix(r, parent) /\ UserEntries \subseteq Below(r) /\ Below(r) \subseteq UserEntries
    /\ Append(parent, name) \notin Entries
    /\ files' = (Append(parent, name) :> content) @@ files
    /\ UNCHANGED <<dirs, dbVars, cmd, pc, open_err, seqVars, file_list,
                   conclusion, parVars, report, prev_run, catVars>>

(***************************************************************************)
(* _copy, first part (main.rs 218-250): setup and choice of the strategy.  *)
(***************************************************************************)
OpenOutcomes == {"Ok", "EMFILE", "EACCES"}

\* the subdirectories a run over source root s may try to open
SubDirs(s) == {d \in dirs : IsStrictPrefix(s, d)}

\* the state in which singlethread / multithread start (main.rs 437-471, 642-685)
EngineStart(source_str, is_multithread) ==
    /\ stack' = IF is_multithread THEN <<>> ELSE <<ReadDir(source_str)>>
    /\ curr_dir' = NoDir
    /\ file_list' = <<>>
    /\ conclusion' = ConclusionNew
    /\ curr_progress' = 0
    /\ dir_content' = None
    /\ workers' = IF is_multithread
                    THEN (source_str :> ReadDir(source_str).rest)
                    ELSE <<>>
    /\ conclusion_chan' = <<>>
    /\ files_list_chan' = <<>>
    /\ thread_pool' = {}
    /\ pc' = IF is_multithread THEN "discover" ELSE "walk"

\* a command may start: none is running and fewer than max were run
CanStart(max) == pc = "idle" /\ cmd.n < max

\* the command line as main parses it; the previous result is kept for comparison
StartCmd(name, source_str, dest_str, is_multithread, id) ==
    /\ cmd' = [name |-> name, source_str |-> source_str, dest_str |-> dest_str,
               is_multithread |-> is_multithread, id |-> id, n |-> cmd.n + 1]
    /\ prev_run' = report

\* a setup that leaves a Backups row behind when it gives up
SetupAbortWithRow(error) ==
    /\ report' = [cmd |-> "copy", status |-> "aborted", error |-> error]
    /\ Backups' = Backups \cup {[id |-> 0, source |-> <<>>, dest |-> <<>>]}
    /\ UNCHANGED <<fsVars, Files, pc, open_err, seqVars, file_list, conclusion,
                   parVars, catVars>>

\* _copy prints the error and returns true (main.rs 223-226, 231-238)
SetupAbort(error) ==
    /\ report' = [cmd |-> "copy", status |-> "aborted", error |-> error]
    /\ UNCHANGED <<fsVars, dbVars, pc, open_err, seqVars, file_list, conclusion,
                   parVars, catVars>>

\* the outcomes of the two calls _copy makes before the engine
SetupOutcomes == {"ok", "read_err", "mkdir_err"}

\* _copy up to the call of singlethread / multithread
CopySetup(source_str, dest_str, is_multithread) ==
    \E io \in SetupOutcomes :
        IF source_str \notin dirs \/ io = "read_err"
          THEN \* fs::read_dir(&source_str) fails
               SetupAbort("read_dir")
        ELSE IF io = "mkdir_err"
          THEN \* fs::create_dir_all(&dest_str) fails
               SetupAbort("create_dir_all")
        ELSE /\ dirs' = CreateDirAll(dirs, dest_str)
             /\ \E pattern \in [SubDirs(source_str) -> OpenOutcomes] :
                  open_err' = pattern
             /\ EngineStart(source_str, is_multithread)
             /\ report' = NoResult
             /\ UNCHANGED <<files, dbVars, catVars>>

\* Commands::Create (main.rs 206-212)
Create(source, dest, multithread, max) ==
    /\ CanStart(max)
    /\ StartCmd("create", source, dest, multithread, 0)
    /\ CopySetup(source, dest, multithread)

\* source_name: the last component of the source root (main.rs 219)
SourceName == Last(cmd.source_str)

(***************************************************************************)
(* singlethread (main.rs 437-623).                                         *)
(***************************************************************************)
\* the for loop over curr_dir has no entry left
CurrExhausted == curr_dir.rest = {}

\* while let Some(curr_dir) = stack.pop_front()
SeqPopDir ==
    /\ pc = "walk"
    /\ CurrExhausted
    /\ stack # <<>>
    /\ curr_dir' = Head(stack)
    /\ stack' = Tail(stack)
    /\ UNCHANGED <<fsVars, dbVars, cmd, pc, open_err, file_list, conclusion,
                   curr_progress, dir_content, parVars, report, prev_run, catVars>>

\* for _ in 0..5 { stack.pop_front(); }
PopFront5(s) == IF Len(s) <= 5 THEN <<>> ELSE SubSeq(s, 6, Len(s))

\* a fallback that goes on walking without draining the backlog
PcAfterEmfileNoDrain(backlog) == "walk"

\* where the EMFILE arm goes: into its drain loop unless the backlog is empty
PcAfterEmfile(backlog) == IF backlog = <<>> THEN "walk" ELSE "drain"

\* one entry of curr_dir (main.rs 474-558)
SeqEntry(entry) ==
    /\ pc = "walk"
    /\ entry \in curr_dir.rest
    /\ curr_dir' = [curr_dir EXCEPT !.rest = @ \ {entry}]
    /\ IF IsDir(entry)
         THEN /\ dir_content' = open_err[entry]
              /\ CASE open_err[entry] = "Ok" ->
                        /\ stack' = Append(stack, ReadDir(entry))
                        /\ UNCHANGED <<pc, file_list, conclusion>>
                   [] open_err[entry] = "EMFILE" ->
                        /\ stack' = PopFront5(stack)
                        /\ pc' = PcAfterEmfile(file_list)
                        /\ UNCHANGED <<file_list, conclusion>>
                   [] OTHER ->
                        UNCHANGED <<stack, pc, file_list, conclusion>>
         ELSE /\ dir_content' = None
              /\ conclusion' = [conclusion EXCEPT
                                  !.total_size.byte = @ + MetadataLen(entry)]
              /\ file_list' = <<entry>> \o file_list
              /\ UNCHANGED <<stack, pc>>
    /\ UNCHANGED <<fsVars, dbVars, cmd, open_err, curr_progress, parVars,
                   report, prev_run, catVars>>

\* a copy loop that forgets a file whose copy failed
AfterCopyOkOnly(c, p, dest_path, io) ==
    IF io = "ok"
      THEN [c EXCEPT !.path_list = Append(@, <<p, dest_path>>)]
      ELSE c

\* the Conclusion fields after one _copy_file call on full path p
AfterCopy(c, p, dest_path, io) ==
    IF io = "ok"
      THEN [c EXCEPT !.path_list = Append(@, <<p, dest_path>>)]
      ELSE [c EXCEPT !.error_count = @ + 1,
                     !.error_list = Append(@, [kind |-> "copy", path |-> p])]

\* one round of `while let Some(f) = file_list.pop_front()`, in the fd-pressure
\* fallback (main.rs 505-532) or in the final copy pass (main.rs 583-606)
SeqCopyFront(io) ==
    /\ pc \in {"drain", "copy"}
    /\ file_list # <<>>
    /\ LET p == Head(file_list)
           dest_path == DestPath(p, SourceName, cmd.dest_str)
       IN  /\ file_list' = Tail(file_list)
           /\ curr_progress' = IF pc = "drain" THEN curr_progress + MetadataLen(p)
                                               ELSE curr_progress
           /\ dirs' = CopyFileDirs(p, SourceName, cmd.dest_str, io)
           /\ files' = CopyFileFiles(p, SourceName, cmd.dest_str, io)
           /\ conclusion' = AfterCopy(conclusion, p, dest_path, io)
           /\ pc' = IF pc = "drain" /\ Tail(file_list) = <<>> THEN "walk" ELSE pc
    /\ UNCHANGED <<dbVars, cmd, open_err, stack, curr_dir, dir_content, parVars,
                   report, prev_run, catVars>>

\* the walk is over: total_count is taken from what is left in file_list
SeqWalkEnd ==
    /\ pc = "walk"
    /\ CurrExhausted
    /\ stack = <<>>
    /\ conclusion' = [conclusion EXCEPT !.total_count = Len(file_list)]
    /\ pc' = "copy"
    /\ UNCHANGED <<fsVars, dbVars, cmd, open_err, seqVars, file_list, parVars,
                   report, prev_run, catVars>>

\* total_size.update() and return (main.rs 608-622)
SeqReturn ==
    /\ pc = "copy"
    /\ file_list = <<>>
    /\ conclusion' = [conclusion EXCEPT !.total_size = FileSizeUpdate(@)]
    /\ pc' = "ran"
    /\ UNCHANGED <<fsVars, dbVars, cmd, open_err, seqVars, file_list, parVars,
                   report, prev_run, catVars>>

(***************************************************************************)
(* multithread / _multithread / _multithread_discover (main.rs 634-830).   *)
(***************************************************************************)
TotalCount(x) == [type |-> "TotalCount", v |-> x]
Error(x) == [type |-> "Error", v |-> x]
FileSizeEvent(x) == [type |-> "FileSize", v |-> x]
PathCouple(x) == [type |-> "PathCouple", v |-> x]

\* what a _multithread_discover call sends for one entry (main.rs 784-828)
DiscoverEvents(entry) ==
    IF IsDir(entry)
      THEN IF open_err[entry] = "Ok" THEN <<>>
           ELSE <<Error([kind |-> "read", path |-> entry])>>
      ELSE <<FileSizeEvent(FileSizeFromBytes(MetadataLen(entry))), TotalCount(1)>>

\* one entry of the directory a _multithread_discover call iterates
ParEntry(w, entry) ==
    /\ pc \in {"discover", "drain1"}
    /\ w \in DOMAIN workers
    /\ entry \in workers[w]
    /\ workers' =
         LET left == [workers EXCEPT ![w] = @ \ {entry}]
         IN  IF IsDir(entry) /\ open_err[entry] = "Ok"
               THEN (entry :> ReadDir(entry).rest) @@ left
               ELSE left
    /\ conclusion_chan' = conclusion_chan \o DiscoverEvents(entry)
    /\ files_list_chan' = IF IsFile(entry) THEN Append(files_list_chan, entry)
                                           ELSE files_list_chan
    /\ UNCHANGED <<fsVars, dbVars, cmd, pc, open_err, seqVars, file_list,
                   conclusion, thread_pool, report, prev_run, catVars>>

\* a _multithread_discover call returns and drops its two senders; the call
\* made by _multithread itself is the one on the source root (main.rs 678-688)
ParDiscoverReturn(w) ==
    /\ pc \in {"discover", "drain1"}
    /\ w \in DOMAIN workers
    /\ workers[w] = {}
    /\ workers' = [x \in DOMAIN workers \ {w} |-> workers[x]]
    /\ pc' = IF w = cmd.source_str THEN "drain1" ELSE pc
    /\ UNCHANGED <<fsVars, dbVars, cmd, open_err, seqVars, file_list, conclusion,
                   conclusion_chan, files_list_chan, thread_pool, report, prev_run,
          tx, pending, tally>>

\* an aggregator that stores a received count instead of adding it
AggregateAssign(c, v) ==
    CASE v.type = "TotalCount" -> [c EXCEPT !.total_count = v.v]
      [] v.type = "Error" -> [c EXCEPT !.error_count = @ + 1,
                                       !.error_list = Append(@, v.v)]
      [] v.type = "FileSize" ->
           [c EXCEPT !.total_size = FileSizeUpdate([@ EXCEPT !.byte = @ + v.v.byte])]
      [] v.type = "PathCouple" -> [c EXCEPT !.path_list = Append(@, v.v)]

\* the match on a received ConclusionFields (main.rs 691-702, 751-762)
Aggregate(c, v) ==
    CASE v.type = "TotalCount" -> [c EXCEPT !.total_count = @ + v.v]
      [] v.type = "Error" -> [c EXCEPT !.error_count = @ + 1,
                                       !.error_list = Append(@, v.v)]
      [] v.type = "FileSize" ->
           [c EXCEPT !.total_size = FileSizeUpdate([@ EXCEPT !.byte = @ + v.v.byte])]
      [] v.type = "PathCouple" -> [c EXCEPT !.path_list = Append(@, v.v)]

\* conclusion_recv.recv() returns Ok(v)
ParRecvConclusion ==
    /\ pc \in {"drain1", "drain3"}
    /\ conclusion_chan # <<>>
    /\ conclusion' = Aggregate(conclusion, Head(conclusion_chan))
    /\ conclusion_chan' = Tail(conclusion_chan)
    /\ UNCHANGED <<fsVars, dbVars, cmd, pc, open_err, seqVars, file_list, workers,
                   files_list_chan, thread_pool, report, prev_run, catVars>>

\* a drain that ends as soon as the call made by _multithread itself is over
RootDiscoverReturned == cmd.source_str \notin DOMAIN workers

\* every sender of the discovery channel is dropped: no _multithread_discover
\* call is running
DiscoverSendersDropped == DOMAIN workers = {}

\* conclusion_recv.recv() returns Err: the first drain loop ends (main.rs 690-703)
ParDrain1End ==
    /\ pc = "drain1"
    /\ conclusion_chan = <<>>
    /\ DiscoverSendersDropped
    /\ pc' = "drain2"
    /\ UNCHANGED <<fsVars, dbVars, cmd, open_err, seqVars, file_list, conclusion,
                   parVars, report, prev_run, catVars>>

\* while let Ok(v) = files_list_recv.recv() { files_list.push(v) } (main.rs 705-707)
ParRecvFile ==
    /\ pc = "drain2"
    /\ files_list_chan # <<>>
    /\ file_list' = Append(file_list, Head(files_list_chan))
    /\ files_list_chan' = Tail(files_list_chan)
    /\ UNCHANGED <<fsVars, dbVars, cmd, pc, open_err, seqVars, conclusion, workers,
                   conclusion_chan, thread_pool, report, prev_run, catVars>>

ParDrain2End ==
    /\ pc = "drain2"
    /\ files_list_chan = <<>>
    /\ DiscoverSendersDropped
    /\ pc' = "spawn"
    /\ UNCHANGED <<fsVars, dbVars, cmd, open_err, seqVars, file_list, conclusion,
                   parVars, report, prev_run, catVars>>

\* while let Some(e) = files_list.pop(): one copy thread per file (main.rs 724-747)
ParSpawn ==
    /\ pc = "spawn"
    /\ file_list # <<>>
    /\ thread_pool' = thread_pool \cup
                        {[id |-> Len(file_list), e |-> Last(file_list), running |-> TRUE]}
    /\ file_list' = Front(file_list)
    /\ UNCHANGED <<fsVars, dbVars, cmd, pc, open_err, seqVars, conclusion, workers,
                   conclusion_chan, files_list_chan, report, prev_run, catVars>>

\* drop(conclusion_send) (main.rs 748)
ParSpawnEnd ==
    /\ pc = "spawn"
    /\ file_list = <<>>
    /\ pc' = "drain3"
    /\ UNCHANGED <<fsVars, dbVars, cmd, open_err, seqVars, file_list, conclusion,
                   parVars, report, prev_run, catVars>>

\* what a copy thread sends (main.rs 733-744)
CopyEvent(p, dest_path, io) ==
    IF io = "ok" THEN PathCouple(<<p, dest_path>>)
    ELSE Error([kind |-> "copy", path |-> p])

\* the body of one copy thread (main.rs 727-746)
ParCopyThread(t, io) ==
    /\ pc \in {"spawn", "drain3"}
    /\ t \in thread_pool
    /\ t.running
    /\ LET p == t.e
           dest_path == DestPath(p, SourceName, cmd.dest_str)
       IN  /\ dirs' = CopyFileDirs(p, SourceName, cmd.dest_str, io)
           /\ files' = CopyFileFiles(p, SourceName, cmd.dest_str, io)
           /\ conclusion_chan' = Append(conclusion_chan, CopyEvent(p, dest_path, io))
    /\ thread_pool' = (thread_pool \ {t}) \cup {[t EXCEPT !.running = FALSE]}
    /\ UNCHANGED <<dbVars, cmd, pc, open_err, seqVars, file_list, conclusion,
                   workers, files_list_chan, report, prev_run, catVars>>

\* a _multithread that keeps conclusion_send alive during the second drain
CopySenderKept == FALSE

\* every sender of the copy channel is dropped: drop(conclusion_send) was
\* executed and every copy thread has finished
CopySendersDropped == \A t \in thread_pool : ~t.running

\* the second drain loop ends, the threads are joined, _multithread returns
\* (main.rs 750-770)
ParReturn ==
    /\ pc = "drain3"
    /\ conclusion_chan = <<>>
    /\ CopySendersDropped
    /\ pc' = "ran"
    /\ UNCHANGED <<fsVars, dbVars, cmd, open_err, seqVars, file_list, conclusion,
                   parVars, report, prev_run, catVars>>

(***************************************************************************)
(* Strings stored in the catalog, and the backup id.                       *)
(***************************************************************************)
\* the characters of one path component
ComponentChars(c) == IF c = ".." THEN <<".", ".">> ELSE <<c>>

\* Path::display(): the components joined by the separator, none after RootDir
RECURSIVE Display(_)
Display(path) ==
    IF path = <<>> THEN <<>>
    ELSE IF Len(path) = 1 THEN ComponentChars(path[1])
    ELSE IF Head(path) = "/" THEN <<"/">> \o Display(Tail(path))
    ELSE ComponentChars(Head(path)) \o <<"/">> \o Display(Tail(path))

\* the component a run of characters between two separators stands for
SegmentComponent(seg) == IF seg = <<".", ".">> THEN ".." ELSE seg[1]

\* String -> PathBuf and its components(): split at the separators, a leading
\* separator is RootDir, a "." that is not leading is dropped
RECURSIVE ParseFrom(_, _, _)
ParseFrom(chars, seg, path) ==
    LET closed == IF seg = <<>> \/ (seg = <<".">> /\ path # <<>>)
                    THEN path
                    ELSE Append(path, SegmentComponent(seg))
    IN  IF chars = <<>> THEN closed
        ELSE IF Head(chars) = "/"
          THEN ParseFrom(Tail(chars), <<>>, closed)
          ELSE ParseFrom(Tail(chars), Append(seg, Head(chars)), path)

ParsePath(chars) ==
    IF chars # <<>> /\ Head(chars) = "/"
      THEN ParseFrom(Tail(chars), <<>>, <<"/">>)
      ELSE ParseFrom(chars, <<>>, <<>>)

\* the byte of a character
Byte(ch) ==
    CASE ch = "/" -> 47 [] ch = "." -> 46 [] ch = "a" -> 97 [] ch = "b" -> 98
      [] ch = "d" -> 100 [] ch = "s" -> 115 [] OTHER -> 63

\* exclusive or of two bytes
RECURSIVE Xor8(_, _, _)
Xor8(x, y, bits) ==
    IF bits = 0 THEN 0
    ELSE ((x + y) % 2) + 2 * Xor8(x \div 2, y \div 2, bits - 1)

\* FnvHasher::write for one byte, on the low 16 bits of the 64-bit state (the low
\* 16 bits of hash ^ byte and of the wrapping product depend on no higher bit)
FnvByte(hash, byte) ==
    (((hash - (hash % 256)) + Xor8(hash % 256, byte, 8)) * 435) % 65536

RECURSIVE FnvWrite(_, _)
FnvWrite(hash, bytes) ==
    IF bytes = <<>> THEN hash
    ELSE FnvWrite(FnvByte(hash, Head(bytes)), Tail(bytes))

\* v.hash(&mut hasher); hasher.finish(): str hashes its bytes and then 0xff
FnvHash(chars) ==
    FnvWrite(8997, [i \in 1..(Len(chars) + 1) |->
                       IF i <= Len(chars) THEN Byte(chars[i]) ELSE 255])

\* an id that also depends on when the command runs
BackupIdSalted(source_str, dest_str) ==
    FnvHash(Display(source_str) \o Display(Append(dest_str, Last(source_str)))
              \o <<IF cmd.n % 2 = 0 THEN "a" ELSE "b">>)

\* the id of the backup of source_str to dest_str (main.rs 252-259)
BackupId(source_str, dest_str) ==
    FnvHash(Display(source_str) \o Display(Append(dest_str, Last(source_str))))

\* INSERT OR REPLACE INTO Backups: id is the primary key
PutBackup(table, row) == {b \in table : b.id # row.id} \cup {row}

\* INSERT OR REPLACE INTO Files: (source, dest) is the primary key
PutFile(table, row) ==
    {f \in table : ~(f.source = row.source /\ f.dest = row.dest)} \cup {row}

(***************************************************************************)
(* _copy, second part (main.rs 252-435), and the commit in main.           *)
(***************************************************************************)
\* the hashing pass over conclusion.path_list (main.rs 294-319)
RECURSIVE HashPass(_, _, _)
HashPass(table, h, path_list) ==
    IF path_list = <<>> THEN table
    ELSE LET from == Head(path_list)[1]
             to == Head(path_list)[2]
         IN  HashPass(PutFile(table, [backup_id |-> h,
                                      source |-> Display(from),
                                      dest |-> Display(to),
                                      sha256 |-> Sha256(files[from])]),
                      h, Tail(path_list))

\* SELECT source, dest, sha256 FROM Files WHERE backup_id = ?1
FilesOf(table, id) == {f \in table : f.backup_id = id}

\* what a command leaves behind when a thread panics: the transaction is dropped
Panicked == [cmd |-> "copy", status |-> "panicked",
             source |-> cmd.source_str, dest |-> cmd.dest_str,
             is_multithread |-> cmd.is_multithread, open_err |-> open_err,
             conclusion |-> conclusion]

\* the outcomes of the reads of the hashing pass: all succeed, or one of
\* File::open(from), metadata(), read_to_end() fails
HashOutcomes == {"ok", "read_err"}

\* the Backups row and the Files rows are written (main.rs 252-319), then the
\* verification query is prepared (main.rs 340-352)
CopyHash(io) ==
    /\ pc = "ran"
    /\ LET h == BackupId(cmd.source_str, cmd.dest_str)
           rows == [i \in 1..Len(conclusion.path_list) |-> conclusion.path_list[i]]
       IN  IF \/ \E i \in 1..Len(rows) : rows[i][1] \notin DOMAIN files
              \/ (io = "read_err" /\ rows # <<>>)
             THEN \* File::open(from).unwrap(), read_to_end(..).unwrap()
                  /\ pc' = "idle"
                  /\ report' = Panicked
                  /\ UNCHANGED <<tx, pending>>
             ELSE /\ tx' = [Backups |-> PutBackup(Backups,
                                          [id |-> h,
                                           source |-> Display(cmd.source_str),
                                           dest |-> Display(cmd.dest_str)]),
                            Files |-> HashPass(Files, h, rows)]
                  /\ pending' = FilesOf(tx'.Files, h)
                  /\ pc' = "verifying"
                  /\ UNCHANGED report
    /\ UNCHANGED <<fsVars, dbVars, cmd, open_err, seqVars, file_list, conclusion,
                   parVars, prev_run, tally>>

\* the outcomes of the calls made for one row of the verification pass: all
\* succeed, the read of the destination fails, the repair copy fails
VerifyOutcomes == {"ok", "read_err", "copy_err"}

\* one row of the verification pass (main.rs 354-381)
CopyVerifyEntry(entry, io) ==
    /\ pc = "verifying"
    /\ entry \in pending
    /\ LET from == ParsePath(entry.source)
           to == ParsePath(entry.dest)
       IN  IF to \notin DOMAIN files \/ io = "read_err"
             THEN \* File::open(&entry.to).unwrap(), read_to_end(..).unwrap()
                  /\ pc' = "idle" /\ report' = Panicked
                  /\ tx' = None /\ pending' = {}
                  /\ UNCHANGED files
           ELSE IF Sha256(files[to]) = entry.sha256
             THEN /\ pending' = pending \ {entry}
                  /\ UNCHANGED <<files, pc, report, tx>>
           ELSE IF io = "copy_err" \/ from \notin DOMAIN files
             THEN \* fs::copy(entry.from, entry.to).unwrap()
                  /\ pc' = "idle" /\ report' = Panicked
                  /\ tx' = None /\ pending' = {}
                  /\ UNCHANGED files
           ELSE /\ files' = FsCopy(files, from, to)
                /\ pending' = pending \ {entry}
                /\ UNCHANGED <<pc, report, tx>>
    /\ UNCHANGED <<dirs, dbVars, cmd, open_err, seqVars, file_list, conclusion,
                   parVars, prev_run, tally>>

\* a - b on usize: a number below 2^64, written as n, or as 2^64 + n with n < 0
\* when the subtraction wrapped around
UsizeSub(a, b) == [wrapped |-> a < b, n |-> a - b]

\* the summary line (main.rs 385-435) and tx.commit() (main.rs 215); the count of
\* copied files is a usize difference: below zero it panics in a build with
\* overflow checks and wraps around otherwise
CopySummary(overflow_checks) ==
    /\ pc = "verifying"
    /\ pending = {}
    /\ pc' = "idle"
    /\ tx' = None
    /\ IF conclusion.total_count < conclusion.error_count /\ overflow_checks
         THEN /\ report' = Panicked
              /\ UNCHANGED dbVars
         ELSE /\ report' = [cmd |-> "copy", status |-> "done",
                            source |-> cmd.source_str, dest |-> cmd.dest_str,
                            is_multithread |-> cmd.is_multithread,
                            open_err |-> open_err, conclusion |-> conclusion,
                            copied |-> UsizeSub(conclusion.total_count,
                                                conclusion.error_count)]
              /\ Backups' = tx.Backups
              /\ Files' = tx.Files
    /\ UNCHANGED <<fsVars, cmd, open_err, seqVars, file_list, conclusion,
                   parVars, prev_run, pending, tally>>

(***************************************************************************)
(* commands.rs: list, revert, verify.                                      *)
(***************************************************************************)
\* list (commands.rs 198-226)
List(max) ==
    /\ CanStart(max)
    /\ StartCmd("list", <<>>, <<>>, FALSE, 0)
    /\ report' = [cmd |-> "list",
                  entries |-> {[id |-> b.id, from |-> ParsePath(b.source),
                                to |-> ParsePath(b.dest)] : b \in Backups}]
    /\ UNCHANGED <<fsVars, dbVars, pc, open_err, seqVars, file_list, conclusion,
                   parVars, catVars>>

\* revert (commands.rs 129-156): the row's dest is read from, its source written to
Revert(id, multithread, max) ==
    /\ CanStart(max)
    /\ IF \E b \in Backups : b.id = id
         THEN LET b == CHOOSE b \in Backups : b.id = id
                  source_str == ParsePath(b.dest)
                  dest_str == ParsePath(b.source)
              IN  /\ StartCmd("revert", source_str, dest_str, multithread, id)
                  /\ CopySetup(source_str, dest_str, multithread)
         ELSE /\ StartCmd("revert", <<>>, <<>>, multithread, id)
              /\ report' = [cmd |-> "revert", status |-> "notfound"]
              /\ UNCHANGED <<fsVars, dbVars, pc, open_err, seqVars, file_list,
                             conclusion, parVars, catVars>>

\* verify, up to its loop (commands.rs 11-49)
Verify(id, max) ==
    /\ CanStart(max)
    /\ StartCmd("verify", <<>>, <<>>, FALSE, id)
    /\ pending' = FilesOf(Files, id)
    /\ tally' = TallyNew
    /\ report' = NoResult
    /\ pc' = "verify"
    /\ UNCHANGED <<fsVars, dbVars, open_err, seqVars, file_list, conclusion,
                   parVars, tx>>

\* fs::copy(from, to) in verify succeeds
CopyOk(fs, from, io) == io = "ok" /\ from \in DOMAIN fs

\* a loop that falls through to `verified += 1` after a failed repair copy
VerifyFailedFallThrough(t, entry) ==
    [t EXCEPT !.error_list = Append(@, entry), !.verified = @ + 1]

\* error_list.push(e); continue (commands.rs 69-73, 98-102)
VerifyFailed(t, entry) == [t EXCEPT !.error_list = Append(@, entry)]

\* one row of verify's loop (commands.rs 51-108); io1 and io2 are the outcomes of
\* its two fs::copy calls
VerifyEntry(entry, io1, io2) ==
    /\ pc = "verify"
    /\ entry \in pending
    /\ pending' = pending \ {entry}
    /\ LET from == ParsePath(entry.source)
           to == ParsePath(entry.dest)
           counted == [tally EXCEPT !.real_count = @ + 1]
           missing == to \notin DOMAIN files
       IN  IF missing /\ ~CopyOk(files, from, io1)
             THEN /\ tally' = VerifyFailed(counted, entry)
                  /\ UNCHANGED files
             ELSE LET files1 == IF missing THEN FsCopy(files, from, to) ELSE files
                      tally1 == IF missing THEN [counted EXCEPT !.copied = @ + 1]
                                           ELSE counted
                  IN  IF Sha256(files1[to]) = entry.sha256
                        THEN /\ files' = files1
                             /\ tally' = [tally1 EXCEPT !.verified = @ + 1]
                      ELSE IF ~CopyOk(files1, from, io2)
                        THEN /\ files' = files1
                             /\ tally' = VerifyFailed(tally1, entry)
                      ELSE /\ files' = FsCopy(files1, from, to)
                           /\ tally' = [tally1 EXCEPT !.copied = @ + 1,
                                                      !.verified = @ + 1]
    /\ UNCHANGED <<dirs, dbVars, cmd, pc, open_err, seqVars, file_list, conclusion,
                   parVars, report, prev_run, tx>>

\* the line verify prints (commands.rs 109-120), then tx.commit()
VerifyEnd ==
    /\ pc = "verify"
    /\ pending = {}
    /\ pc' = "idle"
    /\ report' = [cmd |-> "verify", id |-> cmd.id, verified |-> tally.verified,
                  real_count |-> tally.real_count, copied |-> tally.copied,
                  errors |-> Len(tally.error_list)]
    /\ UNCHANGED <<fsVars, dbVars, cmd, open_err, seqVars, file_list, conclusion,
                   parVars, prev_run, catVars>>

(***************************************************************************)
(* commands.rs: delete, soft_delete.                                       *)
(***************************************************************************)
\* DELETE FROM Backups WHERE id = ?1 (commands.rs 228-236)
DeleteEntry(table, id) == {b \in table : b.id # id}

\* a _delete_entry that reports a hit whatever execute() returns
DeleteEntryFoundAlways(table, id) == TRUE

\* the number of rows execute() reports as deleted is not 0
DeleteEntryFound(table, id) == DeleteEntry(table, id) # table

\* the outcomes of fs::remove_dir_all: done, failed before removing anything,
\* failed after removing the files
RemoveOutcomes == {"ok", "err", "err_partial"}

\* the outcome of fs::remove_dir_all on a path that is no directory is an error
RemoveOutcome(ds, p, io) == IF p \in ds THEN io ELSE "err"

\* the directories left by fs::remove_dir_all(p)
RemoveDirAllDirs(ds, p, io) ==
    IF RemoveOutcome(ds, p, io) = "ok" THEN {d \in ds : ~IsPrefix(p, d)} ELSE ds

\* the files left by fs::remove_dir_all(p)
RemoveDirAllFiles(fs, ds, p, io) ==
    IF RemoveOutcome(ds, p, io) = "err" THEN fs
    ELSE [q \in {f \in DOMAIN fs : ~IsPrefix(p, f)} |-> fs[q]]

\* a delete that gives up when the removal fails
DeleteRowsOnRemovalOk(table, id, outcome) ==
    IF outcome = "ok" THEN DeleteEntry(table, id) ELSE table

\* the Backups table after the match on fs::remove_dir_all (commands.rs 180-187):
\* _delete_entry is called whatever the outcome
DeleteRows(table, id, outcome) == DeleteEntry(table, id)

\* delete (commands.rs 158-188)
Delete(id, io, max) ==
    /\ CanStart(max)
    /\ StartCmd("delete", <<>>, <<>>, FALSE, id)
    /\ IF \E b \in Backups : b.id = id
         THEN LET b == CHOOSE b \in Backups : b.id = id
                  dest_str == ParsePath(b.dest)
                  outcome == RemoveOutcome(dirs, dest_str, io)
              IN  /\ dirs' = RemoveDirAllDirs(dirs, dest_str, io)
                  /\ files' = RemoveDirAllFiles(files, dirs, dest_str, io)
                  /\ Backups' = DeleteRows(Backups, id, outcome)
                  /\ report' = [cmd |-> "delete", id |-> id, found |-> TRUE,
                                dest |-> dest_str, fs_error |-> outcome # "ok"]
         ELSE /\ report' = [cmd |-> "delete", id |-> id, found |-> FALSE,
                            dest |-> <<>>, fs_error |-> FALSE]
              /\ UNCHANGED <<fsVars, Backups>>
    /\ UNCHANGED <<Files, pc, open_err, seqVars, file_list, conclusion, parVars,
                   catVars>>

\* soft_delete (commands.rs 190-196)
SoftDelete(id, max) ==
    /\ CanStart(max)
    /\ StartCmd("soft_delete", <<>>, <<>>, FALSE, id)
    /\ Backups' = DeleteEntry(Backups, id)
    /\ report' = [cmd |-> "soft_delete", id |-> id,
                  found |-> DeleteEntryFound(Backups, id)]
    /\ UNCHANGED <<fsVars, Files, pc, open_err, seqVars, file_list, conclusion,
                   parVars, catVars>>

(***************************************************************************)
(* The environment between two commands: a file is changed or removed.     *)
(***************************************************************************)
EnvTamper(p, content) ==
    /\ pc = "idle"
    /\ cmd.n > 0
    /\ p \in DOMAIN files
    /\ files[p] # content
    /\ files' = [files EXCEPT ![p] = content]
    /\ report' = NoResult
    /\ UNCHANGED <<dirs, dbVars, cmd, pc, open_err, seqVars, file_list, conclusion,
                   parVars, prev_run, catVars>>

EnvRemove(p) ==
    /\ pc = "idle"
    /\ cmd.n > 0
    /\ p \in DOMAIN files
    /\ files' = [q \in DOMAIN files \ {p} |-> files[q]]
    /\ report' = NoResult
    /\ UNCHANGED <<dirs, dbVars, cmd, pc, open_err, seqVars, file_list, conclusion,
                   parVars, prev_run, catVars>>

(***************************************************************************)
(* The steps of a running command after its start: the two engines and the *)
(* second part of _copy.                                                   *)
(***************************************************************************)
Engine ==
    \/ SeqPopDir
    \/ \E entry \in Entries : SeqEntry(entry)
    \/ \E io \in IoOutcomes : SeqCopyFront(io)
    \/ SeqWalkEnd
    \/ SeqReturn
    \/ \E w \in DOMAIN workers : \E entry \in workers[w] : ParEntry(w, entry)
    \/ \E w \in DOMAIN workers : ParDiscoverReturn(w)
    \/ ParRecvConclusion
    \/ ParDrain1End
    \/ ParRecvFile
    \/ ParDrain2End
    \/ ParSpawn
    \/ ParSpawnEnd
    \/ \E t \in thread_pool, io \in IoOutcomes : ParCopyThread(t, io)
    \/ ParReturn

Catalogue ==
    \/ \E io \in HashOutcomes : CopyHash(io)
    \/ \E entry \in pending, io \in VerifyOutcomes : CopyVerifyEntry(entry, io)
    \/ \E overflow_checks \in BOOLEAN : CopySummary(overflow_checks)

(***************************************************************************)
(* One run of the engine: the user populates a tree, then one create runs  *)
(* singlethread or multithread up to its return.                           *)
(***************************************************************************)
Next ==
    \/ \E parent \in dirs, name \in Names : EnvMkdir(parent, name, MaxEntries)
    \/ \E parent \in dirs, name \in Names, content \in Contents :
         EnvWrite(parent, name, content, MaxEntries)
    \/ \E source \in SourceRoots, dest \in DestRoots, multithread \in BOOLEAN :
         Create(source, dest, multithread, 1)
    \/ Engine

Spec == Init /\ [][Next]_vars

\* the ids a command line may name: those of the catalog and an unknown one
Ids == {b.id : b \in Backups} \cup {0}

(***************************************************************************)
(* The same tree copied by two creates in a row.                           *)
(***************************************************************************)
NextEquiv ==
    \/ \E parent \in dirs, name \in Names : EnvMkdir(parent, name, MaxCmdEntries)
    \/ \E parent \in dirs, name \in Names, content \in Contents :
         EnvWrite(parent, name, content, MaxCmdEntries)
    \/ \E source \in SourceRoots, dest \in DestRoots, multithread \in BOOLEAN :
         Create(source, dest, multithread, 2)
    \/ Engine
    \/ Catalogue

SpecEquiv == Init /\ [][NextEquiv]_vars

(***************************************************************************)
(* A backup is created, the user changes or removes files, verify runs.    *)
(***************************************************************************)
NextVerify ==
    \/ \E parent \in dirs, name \in Names : EnvMkdir(parent, name, MaxVerifyEntries)
    \/ \E parent \in dirs, name \in Names, content \in Contents :
         EnvWrite(parent, name, content, MaxVerifyEntries)
    \/ \E p \in DOMAIN files, content \in Contents : EnvTamper(p, content)
    \/ \E p \in DOMAIN files : EnvRemove(p)
    \/ \E source \in SourceRoots, dest \in DestRoots, multithread \in BOOLEAN :
         Create(source, dest, multithread, 1)
    \/ \E id \in Ids : Verify(id, 1 + MaxVerifies)
    \/ Engine
    \/ Catalogue
    \/ \E entry \in pending, io1 \in {"ok", "copy_err"}, io2 \in {"ok", "copy_err"} :
         VerifyEntry(entry, io1, io2)
    \/ VerifyEnd

SpecVerify == Init /\ [][NextVerify]_vars

(***************************************************************************)
(* Sequences of create, revert and list.                                   *)
(***************************************************************************)
NextCatalog ==
    \/ \E parent \in dirs, name \in Names : EnvMkdir(parent, name, MaxCatalogEntries)
    \/ \E parent \in dirs, name \in Names, content \in Contents :
         EnvWrite(parent, name, content, MaxCatalogEntries)
    \/ \E p \in DOMAIN files : EnvRemove(p)
    \/ \E source \in SourceRoots, dest \in DestRoots, multithread \in BOOLEAN :
         Create(source, dest, multithread, MaxCommands)
    \/ \E id \in Ids, multithread \in BOOLEAN : Revert(id, multithread, MaxCommands)
    \/ List(MaxCommands)
    \/ Engine
    \/ Catalogue

SpecCatalog == Init /\ [][NextCatalog]_vars

(***************************************************************************)
(* One create from the command line to the commit.                         *)
(***************************************************************************)
NextCreate ==
    \/ \E parent \in dirs, name \in Names : EnvMkdir(parent, name, MaxCreateEntries)
    \/ \E parent \in dirs, name \in Names, content \in Contents :
         EnvWrite(parent, name, content, MaxCreateEntries)
    \/ \E source \in SourceRoots, dest \in DestRoots, multithread \in BOOLEAN :
         Create(source, dest, multithread, 1)
    \/ Engine
    \/ Catalogue

SpecCreate == Init /\ [][NextCreate]_vars

(***************************************************************************)
(* Sequences of create, delete and soft-delete; the backups are made by    *)
(* the sequential engine.                                                  *)
(***************************************************************************)
SeqEngine ==
    \/ SeqPopDir
    \/ \E entry \in Entries : SeqEntry(entry)
    \/ \E io \in IoOutcomes : SeqCopyFront(io)
    \/ SeqWalkEnd
    \/ SeqReturn

NextDelete ==
    \/ \E parent \in dirs, name \in Names : EnvMkdir(parent, name, MaxDeleteEntries)
    \/ \E parent \in dirs, name \in Names, content \in Contents :
         EnvWrite(parent, name, content, MaxDeleteEntries)
    \/ \E source \in SourceRoots, dest \in DestRoots :
         Create(source, dest, FALSE, MaxDeleteCommands)
    \/ \E id \in Ids, io \in RemoveOutcomes : Delete(id, io, MaxDeleteCommands)
    \/ \E id \in Ids : SoftDelete(id, MaxDeleteCommands)
    \/ SeqEngine
    \/ Catalogue

SpecDelete == Init /\ [][NextDelete]_vars

(***************************************************************************)
(* A backup of several files is made by the sequential engine, the user    *)
(* changes or removes files, one verify runs.                              *)
(***************************************************************************)
NextVerifyAll ==
    \/ \E parent \in dirs, name \in Names : EnvMkdir(parent, name, MaxRecordEntries)
    \/ \E parent \in dirs, name \in Names, content \in Contents :
         EnvWrite(parent, name, content, MaxRecordEntries)
    \/ \E p \in DOMAIN files, content \in Contents : EnvTamper(p, content)
    \/ \E p \in DOMAIN files : EnvRemove(p)
    \/ \E source \in SourceRoots, dest \in DestRoots : Create(source, dest, FALSE, 1)
    \/ \E id \in Ids : Verify(id, 2)
    \/ SeqEngine
    \/ Catalogue
    \/ \E entry \in pending, io1 \in {"ok", "copy_err"}, io2 \in {"ok", "copy_err"} :
         VerifyEntry(entry, io1, io2)
    \/ VerifyEnd

SpecVerifyAll == Init /\ [][NextVerifyAll]_vars

(***************************************************************************)
(* Backups of several source roots into one destination root, made by the  *)
(* sequential engine, and deletes; the user puts files into the roots.     *)
(***************************************************************************)
\* the user writes a file into a source root
EnvWriteRoot(root, name, content, max) ==
    /\ pc = "idle"
    /\ cmd.n = 0
    /\ Cardinality(UserEntries) < max
    /\ Append(root, name) \notin Entries
    /\ files' = (Append(root, name) :> content) @@ files
    /\ UNCHANGED <<dirs, dbVars, cmd, pc, open_err, seqVars, file_list,
                   conclusion, parVars, report, prev_run, catVars>>

NextShared ==
    \/ \E root \in SourceRoots, name \in Names, content \in Contents :
         EnvWriteRoot(root, name, content, MaxSharedEntries)
    \/ \E source \in SourceRoots, dest \in DestRoots :
         Create(source, dest, FALSE, MaxSharedCommands)
    \/ \E id \in Ids, io \in RemoveOutcomes : Delete(id, io, MaxSharedCommands)
    \/ SeqEngine
    \/ Catalogue

SpecShared == Init /\ [][NextShared]_vars

(***************************************************************************)
(* One parallel run under a fair scheduler: a thread that can take a step  *)
(* takes it in the end.  A spawned discovery thread may panic on an entry  *)
(* it cannot read; unwinding drops its two senders.                        *)
(***************************************************************************)
\* f.unwrap(), file_type().unwrap() or metadata().unwrap() panics in a spawned
\* _multithread_discover call (main.rs 781-783, 816-819)
ParDiscoverPanic(w) ==
    /\ pc \in {"discover", "drain1"}
    /\ w \in DOMAIN workers
    /\ w # cmd.source_str
    /\ workers[w] # {}
    /\ workers' = [x \in DOMAIN workers \ {w} |-> workers[x]]
    /\ UNCHANGED <<fsVars, dbVars, cmd, pc, open_err, seqVars, file_list, conclusion,
                   conclusion_chan, files_list_chan, thread_pool, report, prev_run,
                   catVars>>

\* the steps of the threads of a parallel run
ParEngine ==
    \/ \E w \in DOMAIN workers : \E entry \in workers[w] : ParEntry(w, entry)
    \/ \E w \in DOMAIN workers : ParDiscoverReturn(w)
    \/ ParRecvConclusion
    \/ ParDrain1End
    \/ ParRecvFile
    \/ ParDrain2End
    \/ ParSpawn
    \/ ParSpawnEnd
    \/ \E t \in thread_pool, io \in IoOutcomes : ParCopyThread(t, io)
    \/ ParReturn

NextFair ==
    \/ \E parent \in dirs, name \in Names : EnvMkdir(parent, name, MaxFairEntries)
    \/ \E parent \in dirs, name \in Names, content \in Contents :
         EnvWrite(parent, name, content, MaxFairEntries)
    \/ \E source \in SourceRoots, dest \in DestRoots : Create(source, dest, TRUE, 1)
    \/ ParEngine
    \/ \E w \in DOMAIN workers : ParDiscoverPanic(w)

SpecFair == Init /\ [][NextFair]_vars /\ WF_vars(ParEngine)

(***************************************************************************)
(* What a run is expected to find, stated on the source tree.              *)
(***************************************************************************)
Multi == cmd.is_multithread
Sequential == ~cmd.is_multithread

\* the regular files below the source root
SrcFiles == {f \in DOMAIN files : IsStrictPrefix(cmd.source_str, f)}

\* the directories on the way from the source root down to entry q
DirsAbove(q) == {SubSeq(q, 1, i) : i \in (Len(cmd.source_str) + 1)..(Len(q) - 1)}

\* q is reached: every directory above it was opened without error
Reached(q) == \A d \in DirsAbove(q) : open_err[d] = "Ok"

ReachableFiles == {f \in SrcFiles : Reached(f)}

\* the subdirectories whose open was tried and failed
ReachedFailedDirs ==
    {d \in SubDirs(cmd.source_str) : Reached(d) /\ open_err[d] # "Ok"}

RECURSIVE SizeSum(_)
SizeSum(fset) ==
    IF fset = {} THEN 0
    ELSE LET f == CHOOSE x \in fset : TRUE
         IN  MetadataLen(f) + SizeSum(fset \ {f})

\* how often file f occurs in c.path_list as a copied source
CopiedIn(c, f) == Cardinality({i \in 1..Len(c.path_list) : c.path_list[i][1] = f})

\* how often a failed copy of file f occurs in c.error_list
CopyErrorsIn(c, f) ==
    Cardinality({i \in 1..Len(c.error_list) :
                   c.error_list[i] = [kind |-> "copy", path |-> f]})

\* the copy attempts made on file f
CopyAttemptsIn(c, f) == CopiedIn(c, f) + CopyErrorsIn(c, f)

\* f is in the backlog or had its copy attempt
QueuedOrAttempted(fl, c, f) == Count(fl, f) + CopyAttemptsIn(c, f)

(***************************************************************************)
(* C1: in both strategies every regular file reachable from the root       *)
(* through directories opened without error is discovered (queued for      *)
(* copy) exactly once; at the return of the run that is one copy attempt.  *)
(***************************************************************************)
C1_DiscoveredExactlyOnce ==
    pc = "ran" => \A f \in ReachableFiles : CopyAttemptsIn(conclusion, f) = 1

(***************************************************************************)
(* C3: in sequential discovery, after a directory open failed with EMFILE  *)
(* on a non-empty backlog, every step copies the head of the backlog and   *)
(* opens no directory until the backlog is empty; no discovered file is    *)
(* lost or duplicated: it is in the backlog or attempted, once in all, and *)
(* the backlog is empty at the return.                                     *)
(***************************************************************************)
C3_DrainStep ==
    (dir_content = "EMFILE" /\ file_list # <<>>) =>
        /\ stack' = stack
        /\ curr_dir' = curr_dir
        /\ file_list' = Tail(file_list)
        /\ CopyAttemptsIn(conclusion', Head(file_list))
             = CopyAttemptsIn(conclusion, Head(file_list)) + 1

C3_NothingLost ==
    \A f \in SrcFiles :
        QueuedOrAttempted(file_list', conclusion', f)
          >= QueuedOrAttempted(file_list, conclusion, f)

C3_FallbackDrainsBacklog ==
    /\ [](Sequential =>
            /\ \A f \in SrcFiles : QueuedOrAttempted(file_list, conclusion, f) <= 1
            /\ pc = "ran" => file_list = <<>>)
    /\ [][(Sequential /\ pc # "idle") => (C3_DrainStep /\ C3_NothingLost)]_vars

\* the fallback drained a non-empty backlog, later files went to the final pass
C3_Witness ==
    /\ pc = "ran"
    /\ Sequential
    /\ \E d \in ReachedFailedDirs : open_err[d] = "EMFILE"
    /\ conclusion.total_count > 0
    /\ Len(conclusion.path_list) > conclusion.total_count

(***************************************************************************)
(* C4: in a parallel run no aggregator event is lost or double-counted: at *)
(* the return total_count is the number of files discovered, total_size    *)
(* the sum of their sizes, error_count the number of error events, and     *)
(* path_list holds each copied (source, destination) pair exactly once.    *)
(***************************************************************************)
C4_NoEventLostOrDoubled ==
    (pc = "ran" /\ Multi) =>
        /\ conclusion.total_count = Cardinality(ReachableFiles)
        /\ conclusion.total_size = FileSizeFromBytes(SizeSum(ReachableFiles))
        /\ conclusion.error_count = Len(conclusion.error_list)
        /\ conclusion.error_count =
             Cardinality(ReachedFailedDirs)
               + Cardinality({f \in ReachableFiles : CopyErrorsIn(conclusion, f) = 1})
        /\ \A d \in ReachedFailedDirs :
             Count(conclusion.error_list, [kind |-> "read", path |-> d]) = 1
        /\ \A f \in ReachableFiles : CopyAttemptsIn(conclusion, f) = 1
        /\ \A i \in 1..Len(conclusion.path_list) :
             LET pair == conclusion.path_list[i]
             IN  /\ pair[1] \in ReachableFiles
                 /\ pair[2] = DestPath(pair[1], SourceName, cmd.dest_str)
                 /\ pair[2] \in DOMAIN files

\* several files, a copy and an error of each kind went through the channels
C4_Witness ==
    /\ pc = "ran"
    /\ Multi
    /\ conclusion.total_count >= 2
    /\ Len(conclusion.path_list) >= 1
    /\ ReachedFailedDirs # {}
    /\ \E f \in ReachableFiles : CopyErrorsIn(conclusion, f) = 1

(***************************************************************************)
(* C5: once the copy phase has finished, for every pair in path_list the   *)
(* destination file has the digest of its source file.                     *)
(***************************************************************************)
C5_DestinationByteIdentical ==
    pc = "ran" =>
        \A i \in 1..Len(conclusion.path_list) :
            LET pair == conclusion.path_list[i]
            IN  /\ pair[2] \in DOMAIN files
                /\ Sha256(files[pair[2]]) = Sha256(files[pair[1]])

(***************************************************************************)
(* C6: for a source root R with last segment n, a file at R/p and the      *)
(* destination root D, _copy_file places the file at D/n/p, creates the    *)
(* missing intermediate directories and returns that path.                 *)
(***************************************************************************)
\* the sub-path p of a file below the source root
SubPath(f) == SubSeq(f, Len(cmd.source_str) + 1, Len(f))

C6_Placed ==
    \A i \in 1..Len(conclusion.path_list) :
        LET pair == conclusion.path_list[i]
        IN  /\ pair[2] = cmd.dest_str \o <<SourceName>> \o SubPath(pair[1])
            /\ pair[2] \in DOMAIN files
            /\ \A k \in 1..(Len(pair[2]) - 1) : SubSeq(pair[2], 1, k) \in dirs

\* the claim as stated, for every root whose last segment is a name
C6_PlacedUnderSourceName ==
    (pc = "ran" /\ IsNormal(SourceName)) => C6_Placed

\* C6 amended: the same, when n does not occur as an earlier component of R
C6_PlacedUnderFirstSourceName ==
    (pc = "ran" /\ IsNormal(SourceName)
       /\ SourceName \notin Range(Front(cmd.source_str))) => C6_Placed

\* a file two levels below the root was placed
C6_Witness ==
    /\ pc = "ran"
    /\ IsNormal(SourceName)
    /\ SourceName \notin Range(Front(cmd.source_str))
    /\ \E i \in 1..Len(conclusion.path_list) :
         Len(SubPath(conclusion.path_list[i][1])) >= 3

(***************************************************************************)
(* Results of finished commands.                                           *)
(***************************************************************************)
\* r is the result of a _copy that ran its engine (create or revert)
IsRun(r) == r.cmd = "copy" /\ r.status # "aborted"

\* r is the result of a _copy that committed
IsDone(r) == r.cmd = "copy" /\ r.status = "done"

IsVerify(r) == r.cmd = "verify"

(***************************************************************************)
(* C2: for every source tree the sequential run and the parallel run       *)
(* return a Conclusion with the same total_count and the same total_size.  *)
(***************************************************************************)
C2_SameCountAndSize ==
    (/\ pc = "idle"
     /\ IsRun(report)
     /\ IsRun(prev_run)
     /\ report.source = prev_run.source
     /\ report.open_err = prev_run.open_err
     /\ report.is_multithread # prev_run.is_multithread)
    => /\ report.conclusion.total_count = prev_run.conclusion.total_count
       /\ report.conclusion.total_size = prev_run.conclusion.total_size

(***************************************************************************)
(* C7: verify records exactly one repair for each FileRecord whose         *)
(* destination file is absent or has a digest different from the           *)
(* catalogued one, and none for a record whose destination matches (stated *)
(* for the rows on which no copy fails).                                   *)
(***************************************************************************)
C7_RowRepairs(entry) ==
    LET to == ParsePath(entry.dest)
        bad == to \notin DOMAIN files \/ Sha256(files[to]) # entry.sha256
    IN  tally'.copied = tally.copied + (IF bad THEN 1 ELSE 0)

C7_OneRepairPerBadRecord ==
    [][(/\ pc = "verify"
        /\ pending' # pending
        /\ tally'.error_list = tally.error_list)
       => C7_RowRepairs(CHOOSE entry \in pending : entry \notin pending')]_vars

(***************************************************************************)
(* C8: the second of two verify runs in succession, nothing else touching  *)
(* the files in between, makes no repair copy (stated for a first run      *)
(* that ended without an error).                                           *)
(***************************************************************************)
C8_SecondVerifyCopiesNothing ==
    (/\ pc = "idle"
     /\ IsVerify(report)
     /\ IsVerify(prev_run)
     /\ report.id = prev_run.id
     /\ prev_run.errors = 0)
    => report.copied = 0

(***************************************************************************)
(* C9: after create(S, D) and revert(id) of that backup, every file        *)
(* catalogued for the backup is written back, with the backup's bytes, to  *)
(* the path under S it was copied from (stated for reverts without a       *)
(* failed open or copy).                                                   *)
(***************************************************************************)
C9_RevertRestoresSource ==
    (/\ pc = "idle"
     /\ cmd.name = "revert"
     /\ IsDone(report)
     /\ report.conclusion.error_count = 0
     /\ \A d \in DOMAIN report.open_err : report.open_err[d] = "Ok")
    => \A f \in FilesOf(Files, cmd.id) :
          LET source == ParsePath(f.source)
              dest == ParsePath(f.dest)
          IN  dest \in DOMAIN files =>
                /\ <<dest, source>> \in Range(report.conclusion.path_list)
                /\ source \in DOMAIN files
                /\ files[source] = files[dest]

(***************************************************************************)
(* C10: after create(S, D) on an empty catalog, list shows exactly one     *)
(* backup, with source S and destination D; however often create(S, D) is  *)
(* repeated the catalog holds exactly one Backup record for the pair,      *)
(* under the id derived from it.                                           *)
(***************************************************************************)
C10_OneBackupPerPair ==
    /\ \A b1 \in Backups, b2 \in Backups :
         (b1.source = b2.source /\ b1.dest = b2.dest) => b1 = b2
    /\ (pc = "idle" /\ cmd.name = "create" /\ IsDone(report)) =>
         [id |-> BackupId(cmd.source_str, cmd.dest_str),
          source |-> Display(cmd.source_str),
          dest |-> Display(cmd.dest_str)] \in Backups
    /\ (/\ pc = "idle" /\ report.cmd = "list" /\ cmd.n = 2 /\ IsDone(prev_run)) =>
         report.entries = {[id |-> BackupId(prev_run.source, prev_run.dest),
                            from |-> prev_run.source,
                            to |-> prev_run.dest]}

\* create(S, D) ran twice and committed twice
C10_Witness ==
    /\ pc = "idle"
    /\ cmd.name = "create"
    /\ cmd.n = 2
    /\ IsDone(report)
    /\ IsDone(prev_run)
    /\ report.source = prev_run.source
    /\ report.dest = prev_run.dest
    /\ Cardinality(Backups) = 1

(***************************************************************************)
(* C11: delete(id) of a catalogued id removes the Backup record and        *)
(* removes the record's destination directory with everything below it;    *)
(* when the removal fails the error is reported and the record is removed  *)
(* all the same.                                                           *)
(***************************************************************************)
C11_DeleteRemovesRecordAndTree ==
    (pc = "idle" /\ report.cmd = "delete" /\ report.found) =>
        /\ \A b \in Backups : b.id # report.id
        /\ ~report.fs_error =>
             /\ \A d \in dirs : ~IsPrefix(report.dest, d)
             /\ \A f \in DOMAIN files : ~IsPrefix(report.dest, f)

\* a delete whose removal failed: files are left, the record is gone
C11_Witness ==
    /\ pc = "idle"
    /\ report.cmd = "delete"
    /\ report.found
    /\ report.fs_error
    /\ \E f \in DOMAIN files : IsPrefix(report.dest, f)
    /\ Backups = {}

(***************************************************************************)
(* C12: soft-delete(id) of a catalogued id removes that Backup record and  *)
(* leaves every file on disk as it was; for an unknown id it reports the   *)
(* miss and leaves the catalog and the filesystem unchanged.               *)
(***************************************************************************)
C12_SoftDeleteStep ==
    /\ files' = files
    /\ dirs' = dirs
    /\ IF \E b \in Backups : b.id = cmd'.id
         THEN /\ Backups' = {b \in Backups : b.id # cmd'.id}
              /\ report'.found
         ELSE /\ Backups' = Backups
              /\ Files' = Files
              /\ ~report'.found

C12_SoftDeleteKeepsFiles ==
    [][(cmd'.name = "soft_delete" /\ cmd'.n = cmd.n + 1) => C12_SoftDeleteStep]_vars

\* a backup with a copied file was soft-deleted
C12_Witness ==
    /\ pc = "idle"
    /\ report.cmd = "soft_delete"
    /\ report.found
    /\ Backups = {}
    /\ \E f \in DOMAIN files : \E dest \in DestRoots : IsPrefix(dest, f)

(***************************************************************************)
(* C13: after delete(id) or soft-delete(id) has removed the Backup record  *)
(* no FileRecord with backup_id = id remains.                              *)
(***************************************************************************)
C13_NoFileRecordLeft ==
    (/\ pc = "idle"
     /\ report.cmd \in {"delete", "soft_delete"}
     /\ report.found)
    => FilesOf(Files, report.id) = {}

(***************************************************************************)
(* C14: after a create whose copies all succeed the catalog holds the      *)
(* Backup record under the id derived from (source, destination) and, for  *)
(* every copied file, exactly one FileRecord (id, source path, rewritten   *)
(* destination path, digest of the file's content); the destination holds  *)
(* that file with identical bytes, and nothing else is recorded or written *)
(* (an empty subdirectory adds neither a FileRecord nor a file).           *)
(***************************************************************************)
\* the FileRecord create is expected to write for a pair of path_list
C14_Record(h, pair) ==
    [backup_id |-> h, source |-> Display(pair[1]), dest |-> Display(pair[2]),
     sha256 |-> Sha256(files[pair[1]])]

C14_CatalogMatchesCopies ==
    (/\ pc = "idle"
     /\ cmd.name = "create"
     /\ IsDone(report)
     /\ \A i \in 1..Len(report.conclusion.error_list) :
          report.conclusion.error_list[i].kind # "copy")
    => LET h == BackupId(cmd.source_str, cmd.dest_str)
           pairs == Range(report.conclusion.path_list)
       IN  /\ \E b \in Backups : b.id = h /\ b.source = Display(cmd.source_str)
           /\ FilesOf(Files, h) = {C14_Record(h, pair) : pair \in pairs}
           /\ \A pair \in pairs :
                /\ Cardinality({f \in Files : /\ f.source = Display(pair[1])
                                              /\ f.dest = Display(pair[2])}) = 1
                /\ pair[2] \in DOMAIN files
                /\ files[pair[2]] = files[pair[1]]
           /\ {f \in DOMAIN files : IsPrefix(cmd.dest_str, f)}
                = {pair[2] : pair \in pairs}

(***************************************************************************)
(* C15: a create that cannot read the source root or cannot create the     *)
(* destination root stops before any discovery or copy and writes nothing  *)
(* to the catalog.                                                         *)
(***************************************************************************)
C15_AbortStep ==
    /\ Backups' = Backups
    /\ Files' = Files
    /\ tx' = tx
    /\ files' = files
    /\ conclusion' = conclusion
    /\ pc' = "idle"

C15_AbortLeavesCatalog ==
    [][(/\ cmd'.n = cmd.n + 1
        /\ report'.cmd = "copy"
        /\ report'.status = "aborted") => C15_AbortStep]_vars

\* a second create gave up on a tree that holds files, after a first one committed
C15_Witness ==
    /\ pc = "idle"
    /\ report.cmd = "copy"
    /\ report.status = "aborted"
    /\ report.error = "create_dir_all"
    /\ Backups # {}
    /\ \E f \in DOMAIN files : IsStrictPrefix(cmd.source_str, f)

(***************************************************************************)
(* C16: the number of copied files the summary line prints, total_count    *)
(* minus error_count, is the number of files copied in the run, the length *)
(* of path_list, and is never below zero.                                  *)
(***************************************************************************)
C16_SummaryCountsCopies ==
    /\ pc = "verifying" => conclusion.total_count >= conclusion.error_count
    /\ (pc = "idle" /\ IsDone(report)) =>
         report.copied = [wrapped |-> FALSE, n |-> Len(report.conclusion.path_list)]

(***************************************************************************)
(* C17: the Backup record written by create(source, dest_root) has its     *)
(* dest field equal to dest_root/source_basename.                          *)
(***************************************************************************)
C17_DestIsCopyRoot ==
    (pc = "idle" /\ cmd.name = "create" /\ IsDone(report)) =>
        \A b \in Backups :
            b.id = BackupId(cmd.source_str, cmd.dest_str) =>
                b.dest = Display(Append(cmd.dest_str, SourceName))

(***************************************************************************)
(* C18: when the fd-pressure fallback fires in sequential discovery, the   *)
(* queue of directories already opened and waiting to be traversed is left *)
(* unchanged.                                                              *)
(***************************************************************************)
\* this step is the open of a subdirectory of curr_dir failing with EMFILE
C18_EmfileStep ==
    /\ Sequential
    /\ pc = "walk"
    /\ \E entry \in curr_dir.rest :
         /\ IsDir(entry)
         /\ open_err[entry] = "EMFILE"
         /\ curr_dir' = [curr_dir EXCEPT !.rest = @ \ {entry}]

C18_QueueLeftUnchanged == [][C18_EmfileStep => stack' = stack]_vars

(***************************************************************************)
(* C19: in parallel discovery the aggregator's drain of discovery events   *)
(* does not end, and the copy phase does not start, before every discovery *)
(* worker has finished sending: after the drain no file record and no      *)
(* count, size or error event of discovery is sent.                        *)
(***************************************************************************)
\* the first drain loop of _multithread is over
C19_DrainEnded == Multi /\ pc \in {"drain2", "spawn", "drain3", "ran"}

\* v was sent by a copy thread
C19_IsCopyEvent(v) ==
    \/ v.type = "PathCouple"
    \/ v.type = "Error" /\ v.v.kind = "copy"

C19_NothingSent ==
    /\ \/ files_list_chan' = files_list_chan
       \/ files_list_chan' = Tail(files_list_chan)
    /\ \/ Len(conclusion_chan') <= Len(conclusion_chan)
       \/ /\ Len(conclusion_chan') = Len(conclusion_chan) + 1
          /\ C19_IsCopyEvent(Last(conclusion_chan'))

C19_DrainOutlastsWorkers ==
    /\ [](C19_DrainEnded => DOMAIN workers = {})
    /\ [][C19_DrainEnded => C19_NothingSent]_vars

\* the drain ended after a worker spawned by a worker had sent a file
C19_Witness ==
    /\ pc = "drain2"
    /\ Multi
    /\ files_list_chan # <<>>
    /\ \E f \in Range(files_list_chan) : Len(f) >= Len(cmd.source_str) + 3

(***************************************************************************)
(* C20: a failed copy never stops the copy phase: in both strategies every *)
(* discovered file gets exactly one copy attempt and ends in exactly one   *)
(* of path_list and error_list, so the length of path_list plus the number *)
(* of copy errors is the number of discovered files.                       *)
(***************************************************************************)
\* how often file f is on its way from discovery to the aggregated result
C20_InFlight(f) ==
    Count(file_list, f) + Count(files_list_chan, f)
      + Cardinality({t \in thread_pool : t.e = f /\ t.running})
      + Count(conclusion_chan, PathCouple(<<f, DestPath(f, SourceName, cmd.dest_str)>>))
      + Count(conclusion_chan, Error([kind |-> "copy", path |-> f]))

\* f was discovered: it is on its way or has its attempt
C20_Tracked(c, f) == C20_InFlight(f) + CopyAttemptsIn(c, f)

C20_CopyErrors(c) ==
    Cardinality({i \in 1..Len(c.error_list) : c.error_list[i].kind = "copy"})

C20_Running == pc \notin {"idle", "verifying"}

C20_EveryFileAttemptedOnce ==
    /\ [](C20_Running =>
            /\ \A f \in SrcFiles : C20_Tracked(conclusion, f) <= 1
            /\ pc = "ran" =>
                 /\ \A f \in SrcFiles : C20_InFlight(f) = 0
                 /\ Len(conclusion.path_list) + C20_CopyErrors(conclusion)
                      = Cardinality({f \in SrcFiles : C20_Tracked(conclusion, f) = 1}))
    /\ [][(C20_Running /\ pc' # "idle") =>
            \A f \in SrcFiles :
                LET before == C20_Tracked(conclusion, f)
                IN  C20_Tracked(conclusion, f)' >= before]_vars

\* a sequential run went on after two failed copies
C20_Witness ==
    /\ pc = "ran"
    /\ Sequential
    /\ C20_CopyErrors(conclusion) >= 2
    /\ Len(conclusion.path_list) >= 1
    /\ CopyAttemptsIn(conclusion, conclusion.path_list[Len(conclusion.path_list)][1]) = 1

(***************************************************************************)
(* C21: a directory-open failure that is not descriptor exhaustion skips    *)
(* only that subtree, discovery goes on with the remaining entries, and the *)
(* failure is recorded once in the error list, error_count raised by one,   *)
(* in the sequential strategy as in the parallel one (stated for runs       *)
(* without descriptor exhaustion).                                          *)
(***************************************************************************)
C21_OpenFailureRecorded ==
    (pc = "ran" /\ \A d \in DOMAIN open_err : open_err[d] # "EMFILE") =>
        /\ \A f \in ReachableFiles : CopyAttemptsIn(conclusion, f) = 1
        /\ \A f \in SrcFiles \ ReachableFiles : CopyAttemptsIn(conclusion, f) = 0
        /\ \A d \in ReachedFailedDirs :
             Count(conclusion.error_list, [kind |-> "read", path |-> d]) = 1
        /\ conclusion.error_count
             = Cardinality(ReachedFailedDirs) + C20_CopyErrors(conclusion)

(***************************************************************************)
(* C22: in a create run a per-file I/O failure at any stage (discovery,    *)
(* copy, hashing of the copied files, post-copy verification) never        *)
(* unwinds the run: the run reaches the summary and commits the catalog    *)
(* (stated for runs whose summary count does not fall below zero).         *)
(***************************************************************************)
C22_ErrorsNeverUnwind ==
    (/\ pc = "idle"
     /\ cmd.name = "create"
     /\ IsRun(report)
     /\ report.conclusion.total_count >= report.conclusion.error_count)
    => /\ IsDone(report)
       /\ \E b \in Backups : b.id = BackupId(cmd.source_str, cmd.dest_str)

(***************************************************************************)
(* C23: verify(id) processes every FileRecord of the backup: a failed      *)
(* repair copy is recorded as an error and verification goes on with the   *)
(* next record, a digest mismatch by itself is not an error, and at the    *)
(* end the number of verified files plus the number of errors is the       *)
(* number of FileRecords of id.                                            *)
(***************************************************************************)
\* the row a step of verify's loop takes
C23_Row == CHOOSE entry \in pending : entry \notin pending'

\* one row is taken: it is counted, and it ends verified or as one error; an
\* error is a repair copy that failed, the destination is still missing or
\* still differs; the loop goes on with the rows left
C23_RowStep ==
    LET to == ParsePath(C23_Row.dest)
        errors == Len(tally.error_list)
    IN  /\ pending' = pending \ {C23_Row}
        /\ pc' = "verify"
        /\ tally'.real_count = tally.real_count + 1
        /\ \/ /\ tally'.verified = tally.verified + 1
              /\ tally'.error_list = tally.error_list
              /\ to \in DOMAIN files'
           \/ /\ tally'.verified = tally.verified
              /\ tally'.error_list = Append(tally.error_list, C23_Row)
              /\ tally'.copied <= tally.copied + 1
              /\ \/ to \notin DOMAIN files'
                 \/ Sha256(files'[to]) # C23_Row.sha256

C24_RecordFollowsRepair ==
    (pc = "idle" /\ IsVerify(report) /\ report.errors = 0) =>
        \A f \in FilesOf(Files, report.id) :
            LET to == ParsePath(f.dest)
            IN  /\ to \in DOMAIN files
                /\ f.sha256 = Sha256(files[to])

(***************************************************************************)
(* C25: when the source name never occurs as a component of a discovered   *)
(* file's path (a source root given as '.', '..' or '/'), the file's       *)
(* destination path lies under <destination root>/root/.                   *)
(***************************************************************************)
\* the source name is no Normal component of path f
C25_NameNeverFound(f) ==
    \A i \in 1..Len(f) : ~(IsNormal(f[i]) /\ f[i] = SourceName)

C25_FallbackUnderRoot ==
    pc = "ran" =>
        \A i \in 1..Len(conclusion.path_list) :
            LET pair == conclusion.path_list[i]
            IN  C25_NameNeverFound(pair[1]) =>
                  IsStrictPrefix(cmd.dest_str \o <<"root">>, pair[2])

(***************************************************************************)
(* C26: within one run two distinct discovered source files are never      *)
(* given the same destination path by _copy_file, so no copied file is     *)
(* overwritten by another file of the same run.                            *)
(***************************************************************************)
C26_DestinationsDistinct ==
    pc = "ran" =>
        \A i \in 1..Len(conclusion.path_list), j \in 1..Len(conclusion.path_list) :
            conclusion.path_list[i][1] # conclusion.path_list[j][1]
              => conclusion.path_list[i][2] # conclusion.path_list[j][2]

(***************************************************************************)
(* C27: a create or revert run writes FileRecords only under its own       *)
(* backup id: for every other Backup id of the catalog the FileRecords     *)
(* listed for it are the same after the run as before it.                  *)
(***************************************************************************)
\* this step is the commit of a create or revert run
C27_CommitStep == pc = "verifying" /\ pc' = "idle" /\ IsDone(report')

C27_OtherBackupsKeepRecords ==
    [][C27_CommitStep =>
         \A b \in Backups :
             b.id # BackupId(cmd.source_str, cmd.dest_str)
               => FilesOf(Files', b.id) = FilesOf(Files, b.id)]_vars

(***************************************************************************)
(* C28: delete(id) removes from disk only the destination files of backup  *)
(* id: every destination file catalogued under another Backup record still *)
(* exists after the delete.                                                *)
(***************************************************************************)
\* this step is the command delete(id)
C28_DeleteStep == cmd'.name = "delete" /\ cmd'.n = cmd.n + 1

C28_OtherBackupsKeepFiles ==
    [][C28_DeleteStep =>
         \A f \in Files :
             (/\ f.backup_id # cmd'.id
              /\ \E b \in Backups : b.id = f.backup_id
              /\ ParsePath(f.dest) \in DOMAIN files)
             => ParsePath(f.dest) \in DOMAIN files']_vars

(***************************************************************************)
(* C29: on a finite source tree a parallel run always terminates: both     *)
(* aggregator drain loops end because every channel sender is dropped in   *)
(* the end, also when a worker fails or a copy errors, and _multithread    *)
(* returns with every copy thread finished; it never waits forever on a    *)
(* channel receive or a join.                                              *)
(***************************************************************************)
\* _multithread has returned: nothing is in flight, every thread has finished
C29_Returned ==
    /\ pc = "ran"
    /\ DOMAIN workers = {}
    /\ conclusion_chan = <<>>
    /\ files_list_chan = <<>>
    /\ file_list = <<>>
    /\ \A t \in thread_pool : ~t.running

\* _multithread is between its start and its return
C29_Running == Multi /\ pc \in {"discover", "drain1", "drain2", "spawn", "drain3"}

\* while the run is on some thread can take a step, and the run returns
C29_ParallelTerminates ==
    /\ [](C29_Running => ENABLED ParEngine)
    /\ C29_Running ~> C29_Returned

\* a run returned after a discovery thread panicked and a copy failed
C29_Witness ==
    /\ C29_Returned
    /\ Multi
    /\ C20_CopyErrors(conclusion) >= 1
    /\ \E f \in ReachableFiles : CopyAttemptsIn(conclusion, f) = 0

====
